---- MODULE Spec2Model ----
(***************************************************************************)
(* The autoscroll viewer of src/autoscroll.c as a state machine: the      *)
(* command line processing of main(), its signal loop with one action per *)
(* handled signal, and the environment that makes signals pending (the    *)
(* one-second alarm, the user's pause, resume and terminating signals,    *)
(* job control).  After it, logdata of src/basics.c: the loop over the    *)
(* wtmp records and the report.                                           *)
(***************************************************************************)
EXTENDS Integers, Sequences, FiniteSets, TLC

\* ------------------------------------------------------------- bounds
MaxLines == 3          \* lines in the file
MaxSeconds == 2        \* the -s interval (the program accepts 1..59)
MaxPausedTicks == 1    \* alarm ticks handled while paused

\* the terminal sizes of the bounded runs: ws_row - 1 is 0, 1 or 2 rows
\* of text, one or two columns wide
RowCounts == 1..3
ColCounts == 1..2

\* getline() lengths of the lines of the bounded files: a bare newline
\* and a line of two visible characters and a newline
LineLengths == {1, 3}

\* ------------------------------------------------------------- signals
SIGALRM == "SIGALRM"
SIGTSTP == "SIGTSTP"
SIGINT == "SIGINT"
SIGQUIT == "SIGQUIT"
SIGTERM == "SIGTERM"

\* the terminating signal sent from outside; the default case of the loop
\* handles every terminating signal, SIGQUIT from CTRL-\ included, alike
TermSignals == {SIGTERM}

\* ------------------------------------------------------------- files
\* A Line as getline() stores it: length counts the newline when there is
\* one; content stands for the text and identifies the line of the file.
MkFile(lens, unterminated) ==
    [i \in 1..Len(lens) |->
        [content |-> i,
         length |-> lens[i],
         nl |-> ~(unterminated /\ i = Len(lens))]]

SeqsUpTo(S, n) == UNION {[1..k -> S] : k \in 0..n}

Files ==
    {MkFile(lens, u) : lens \in SeqsUpTo(LineLengths, MaxLines), u \in BOOLEAN}

VARIABLES
    file,               \* the lines read from the file, in file order
    ws_row, ws_col,     \* terminal_dimensions
    seconds,            \* the interval
    head,               \* the linked list of lines, from head
    start_line_number,
    display_and_exit,
    paused,
    time_to_scroll,
    pending,            \* blocked signals pending for sigwait()
    alarmArmed,         \* alarm(1) is running
    status,             \* "running", "exited" or "crashed"
    exitCode,
    screen,             \* what the last handled signal left on the terminal
    now,                \* wall clock, in seconds since start
    ticks,              \* SIGALRM handled
    pausedTicks,        \* SIGALRM handled while paused
    popped,             \* lines removed from the list
    renders,            \* frames rendered
    seen,               \* the file line numbers shown in some frame
    extTerm,            \* a terminating signal was sent from outside
    arrivals,           \* the pending signals in the order generated
    fileOpen,           \* file_content is an open stream
    stopped,            \* the process is stopped by job control
    jobSeen,            \* the signals outside the mask generated so far
    \* command line processing
    cmdline,            \* argv[1..], as getopt() sees it
    optind,             \* the next argument getopt() looks at
    pc,                 \* where main() is before the loop
    s_option,
    s_value,
    file_path,
    \* logdata (src/basics.c)
    records,            \* the wtmp records, in file order
    rec_idx,            \* the record getutxent() returns next
    all_users,          \* -a
    sum_totals,         \* -s
    user_list,          \* the linked list of users, from its head
    sum,                \* the TOTAL row
    out,                \* what was printed, one element per conversion
    lpc,                \* where logdata's main() is
    credited            \* the login records whose time was added to a total

startup == <<cmdline, optind, pc, s_option, s_value, file_path>>

logdata == <<records, rec_idx, all_users, sum_totals, user_list, sum, out,
             lpc, credited>>

vars == <<file, ws_row, ws_col, seconds, head, start_line_number,
          display_and_exit, paused, time_to_scroll, pending, alarmArmed,
          status, exitCode, screen, now, ticks, pausedTicks, popped,
          renders, seen, extTerm, arrivals, fileOpen, stopped, jobSeen,
          startup, logdata>>

\* what the signal loop, the alarm and the keyboard leave alone
config == <<file, ws_row, ws_col, seconds, stopped, jobSeen, startup,
            logdata>>

\* ------------------------------------------------------------- the list
\* the insertions of the getline() loop: the first line becomes head, the
\* second head->next and tail, every later one tail->next and tail
Insert(list, line) == Append(list, line)

\* the list after the getline() loop over the lines rest of the file: one
\* insertion per line, in the order read.  The lines are taken in two
\* halves, and the test of the list after the first half only makes that
\* half be evaluated before the second is begun, so that a long file is
\* loaded with a shallow evaluation.
RECURSIVE LoadLines(_, _)
LoadLines(list, rest) ==
    IF rest = <<>> THEN list
    ELSE IF Len(rest) = 1 THEN Insert(list, rest[1])
    ELSE LET h == Len(rest) \div 2
             first == LoadLines(list, SubSeq(rest, 1, h))
             second == SubSeq(rest, h + 1, Len(rest))
         IN  IF first = <<>> THEN LoadLines(<<>>, second)
             ELSE LoadLines(first, second)

\* ------------------------------------------------------------- pagination
\* the row count without the empty line case
RowsNeededNoEmptyCase(length, cols) == (length - 1 + cols - 1) \div cols

\* ceil((length - 1.0) / ws_col), 1 for a line of length 1
RowsNeeded(length, cols) ==
    IF length = 1 THEN 1 ELSE (length - 1 + cols - 1) \div cols

\* the rows a terminal of cols columns uses for a printed line
ActualRows(line, cols) ==
    LET visible == IF line.nl THEN line.length - 1 ELSE line.length
    IN  IF visible = 0 THEN 1 ELSE (visible + cols - 1) \div cols

\* the fit test with < for <=
FitsStrict(physical, need, rows) == physical + need < rows - 1

Fits(physical, need, rows) == physical + need <= rows - 1

\* The print loop from line_walker (a non-empty list) on: the lines printed,
\* the rows charged for each, and where line_walker stops.
RECURSIVE PrintLoop(_, _, _, _, _, _)
PrintLoop(walker, shown, charged, physical, rows, cols) ==
    IF ~(physical < rows - 1)
    THEN [walker |-> walker, shown |-> shown, charged |-> charged,
          physical |-> physical]
    ELSE LET need == RowsNeeded(walker[1].length, cols)
         IN  IF Fits(physical, need, rows)
             THEN IF Tail(walker) = <<>>
                  THEN [walker |-> <<>>, shown |-> Append(shown, walker[1]),
                        charged |-> Append(charged, need),
                        physical |-> physical + need]
                  ELSE PrintLoop(Tail(walker), Append(shown, walker[1]),
                                 Append(charged, need), physical + need,
                                 rows, cols)
             ELSE [walker |-> walker, shown |-> shown, charged |-> charged,
                   physical |-> physical]

\* the latch without the line_walker == NULL case
LatchCondFullOnly(walker, physical, rows, sln) ==
    /\ walker # <<>>
    /\ physical = rows - 1 /\ Tail(walker) = <<>>
    /\ sln = 1

\* (line_walker == NULL || physical == ws_row - 1 && line_walker->next == NULL)
\*     && start_line_number == 1
LatchCond(walker, physical, rows, sln) ==
    /\ \/ walker = <<>>
       \/ physical = rows - 1 /\ Tail(walker) = <<>>
    /\ sln = 1

\* ------------------------------------------------------------- countdown
\* the countdown decremented outside if (!paused)
CountdownWhilePaused(p, tts) == tts - 1

\* time_to_scroll--, inside if (!paused)
Countdown(p, tts) == IF p THEN tts ELSE tts - 1

\* the scroll test without the start_line_number > 1 guard
ScrollDueAtZero(tts, sln) == tts = 0 \/ tts = -1

\* time_to_scroll == 0 && start_line_number > 1 || time_to_scroll == -1
ScrollDue(tts, sln) == (tts = 0 /\ sln > 1) \/ tts = -1

\* the countdown reset one short
ResetCountdownShort(secs) == secs - 1

\* time_to_scroll = seconds
ResetCountdown(secs) == secs

\* the start line advanced by two
NextStartSkips(sln) == sln + 2

\* start_line_number++
NextStart(sln) == sln + 1

\* the second number of "Lines: %d-%d"
StatusLast(sln, lines_printed) == sln + lines_printed - 1

\* the terminal after the clear sequence and before anything is printed
BlankScreen ==
    [drawn |-> FALSE, first |-> 0, last |-> 0, shown |-> <<>>,
     charged |-> <<>>, physical |-> 0, clock |-> 0]

\* the list without its last line
PopBack(list) == SubSeq(list, 1, Len(list) - 1)

\* head = head->next, the old head freed
PopFront(list) == Tail(list)

\* alarm(1) whatever way the case ends
RearmAlways(end) == TRUE

\* alarm(1) is the last statement of a tick that renders; the breaks after
\* raise(SIGQUIT) leave the case before it
Rearm(end) == end = "render"

\* The SIGALRM case on the program state st with the paused flag p:
\* what it leaves in the variables and how it ends.
AlarmBody(st, p, rows, cols, secs, clock) ==
    LET tts1 == Countdown(p, st.time_to_scroll)
        due == ~p /\ ScrollDue(tts1, st.start_line_number)
        quitLatched == due /\ st.display_and_exit
        \* head->next with head == NULL
        nullHead == due /\ ~st.display_and_exit /\ st.head = <<>>
        scroll == due /\ ~st.display_and_exit /\ ~nullHead
        head1 == IF scroll THEN PopFront(st.head) ELSE st.head
        quitEmpty == scroll /\ head1 = <<>>
        sln1 == IF scroll /\ ~quitEmpty
                THEN NextStart(st.start_line_number)
                ELSE st.start_line_number
        tts2 == IF scroll /\ ~quitEmpty THEN ResetCountdown(secs) ELSE tts1
        quit == quitLatched \/ quitEmpty
        \* line_walker->length with line_walker == NULL
        nullWalker == ~quit /\ head1 = <<>> /\ 0 < rows - 1
        crash == nullHead \/ nullWalker
        loop == IF head1 = <<>>
                THEN [walker |-> <<>>, shown |-> <<>>, charged |-> <<>>,
                      physical |-> 0]
                ELSE PrintLoop(head1, <<>>, <<>>, 0, rows, cols)
        latch == LatchCond(loop.walker, loop.physical, rows, sln1)
    IN  [head |-> head1,
         start_line_number |-> sln1,
         time_to_scroll |-> tts2,
         display_and_exit |->
            IF quit \/ crash THEN st.display_and_exit
            ELSE st.display_and_exit \/ latch,
         end |-> IF quit THEN "quit" ELSE IF crash THEN "crash" ELSE "render",
         scrolled |-> scroll,
         screen |->
            IF quit \/ crash THEN BlankScreen
            ELSE [drawn |-> TRUE,
                  first |-> sln1,
                  last |-> StatusLast(sln1, Len(loop.shown)),
                  shown |-> loop.shown,
                  charged |-> loop.charged,
                  physical |-> loop.physical,
                  clock |-> clock]]

ProgramState ==
    [head |-> head, start_line_number |-> start_line_number,
     time_to_scroll |-> time_to_scroll, display_and_exit |-> display_and_exit]

\* ------------------------------------------------------------- command line
MaxArgs == 2           \* arguments after the program name

\* An argument of -s: the integer typed is hi * 2^32 + lo with lo its low
\* word as a signed 32-bit number; "junk" is text strtol() does not read to
\* its end, "erange" an integer outside long, "missing" no argument at all.
\* fills: the argument is as long as the allocation it is copied to, so
\* that the byte after the copy belongs to the allocator.
NoValue == [kind |-> "none", hi |-> 0, lo |-> 0, fills |-> FALSE]

IntArg(h, l, f) == [kind |-> "int", hi |-> h, lo |-> l, fills |-> f]

OtherArg(k) == [kind |-> k, hi |-> 0, lo |-> 0, fills |-> FALSE]

\* the integers typed in the bounded runs: 0, 1, 2, 59, 60 and 2^32 + 1,
\* and 0 and 1 typed with as many digits as the allocation holds
SValues ==
    {IntArg(0, l, FALSE) : l \in {0, 1, 2, 59, 60}}
        \cup {IntArg(1, 1, FALSE)}
        \cup {IntArg(0, l, TRUE) : l \in {0, 1}}
        \cup {OtherArg("junk"), OtherArg("erange")}

OptS(v) == [tok |-> "s", val |-> v]

OptUnknown == [tok |-> "x", val |-> NoValue]

\* a non-option argument: the path of a file that fopen() can or cannot open
Operand(k) == [tok |-> "path", val |-> OtherArg(k)]

Tokens ==
    {OptS(v) : v \in SValues \cup {OtherArg("missing")}}
        \cup {OptUnknown}
        \cup {Operand(k) : k \in {"readable", "unreadable"}}

\* -s lacks its argument only as the last word of the command line
CmdLines ==
    {c \in SeqsUpTo(Tokens, MaxArgs) :
        \A i \in 1..Len(c) : c[i] = OptS(OtherArg("missing")) => i = Len(c)}

\* the non-option arguments, in order (getopt() moves them to the end)
Operands(c) == SelectSeq(c, LAMBDA a : a.tok = "path")

\* What strtol(s_value, &end_ptr, 0) can return for the copy of the
\* argument, which calloc(strlen) and strncpy leave without its NUL: the
\* byte after it is the zero padding of the allocation unless the argument
\* fills it, and then it is a NUL, another character or a digit.
Strtol(v) ==
    CASE v.kind = "erange" ->
            {[errno |-> TRUE, rest |-> FALSE, hi |-> 0, lo |-> -1]}
      [] v.kind = "junk" ->
            {[errno |-> FALSE, rest |-> TRUE, hi |-> 0, lo |-> 0]}
      [] v.kind = "int" /\ ~v.fills ->
            {[errno |-> FALSE, rest |-> FALSE, hi |-> v.hi, lo |-> v.lo]}
      [] v.kind = "int" /\ v.fills ->
            {[errno |-> FALSE, rest |-> FALSE, hi |-> v.hi, lo |-> v.lo],
             [errno |-> FALSE, rest |-> TRUE, hi |-> v.hi, lo |-> v.lo],
             [errno |-> FALSE, rest |-> FALSE, hi |-> v.hi,
              lo |-> 10 * v.lo + 1]}

\* int seconds = <long>: the low 32 bits
ToInt(r) == r.lo

InRange(secs) == ~(secs < 1 \/ secs > 59)

\* ------------------------------------------------------------- signal mask
SIGCHLD == "SIGCHLD"
SIGCONT == "SIGCONT"
SIGTTIN == "SIGTTIN"
SIGTTOU == "SIGTTOU"
SIGURG == "SIGURG"
SIGWINCH == "SIGWINCH"

AllSignals ==
    {SIGALRM, SIGTSTP, SIGINT, SIGQUIT, SIGTERM,
     SIGCHLD, SIGCONT, SIGTTIN, SIGTTOU, SIGURG, SIGWINCH}

\* the signals sigdelset() takes out (SIGCLD is SIGCHLD)
JobSignals == {SIGCHLD, SIGCONT, SIGTTIN, SIGTTOU, SIGURG, SIGWINCH}

\* the mask with SIGWINCH left in
SignalMaskWithWinch == AllSignals \ (JobSignals \ {SIGWINCH})

\* sigfillset() less the sigdelset() calls: blocked, and waited for
SignalMask == AllSignals \ JobSignals

\* the default action of a signal that is not blocked, on a process that
\* is stopped or not: SIGTTIN and SIGTTOU stop it, SIGCONT continues it,
\* SIGCHLD, SIGURG and SIGWINCH are ignored
DefaultAction(sig, isStopped) ==
    IF sig \in {SIGTTIN, SIGTTOU} THEN TRUE
    ELSE IF sig = SIGCONT THEN FALSE
    ELSE isStopped

\* ------------------------------------------------------------- arrivals
\* the value of arrivals in the runs that do not follow the order
Untracked == <<"untracked">>

\* the elements of a sequence
Range(q) == {q[i] : i \in 1..Len(q)}

\* the order of the pending signals after a step that leaves pend pending:
\* the signals that are pending no more are taken out, a signal that has
\* become pending is put last
Follow(arr, pend) ==
    IF arr = Untracked THEN arr
    ELSE LET kept == SelectSeq(arr, LAMBDA x : x \in pend)
             new == pend \ Range(kept)
         IN  IF new = {} THEN kept
             ELSE Append(kept, CHOOSE x \in new : TRUE)

\* ------------------------------------------------------------- initial state
\* logdata is not run
LogdataIdle ==
    /\ records = <<>>
    /\ rec_idx = 1
    /\ all_users = FALSE
    /\ sum_totals = FALSE
    /\ user_list = <<>>
    /\ sum = 0
    /\ out = <<>>
    /\ lpc = "idle"
    /\ credited = {}

\* The state at the first sigwait(): the list built, the countdown set,
\* SIGALRM raised.
InitWith(f, r, c, s) ==
    /\ file = f
    /\ ws_row = r
    /\ ws_col = c
    /\ seconds = s
    /\ head = LoadLines(<<>>, f)
    /\ start_line_number = 1
    /\ display_and_exit = FALSE
    /\ paused = FALSE
    /\ time_to_scroll = s
    /\ pending = {SIGALRM}
    /\ alarmArmed = FALSE
    /\ status = "running"
    /\ exitCode = 0
    /\ screen = BlankScreen
    /\ now = 0
    /\ ticks = 0
    /\ pausedTicks = 0
    /\ popped = 0
    /\ renders = 0
    /\ seen = {}
    /\ extTerm = FALSE
    /\ fileOpen = TRUE
    /\ stopped = FALSE
    /\ jobSeen = {}
    /\ cmdline = <<OptS(IntArg(0, s, FALSE)), Operand("readable")>>
    /\ optind = 3
    /\ pc = "loop"
    /\ s_option = TRUE
    /\ s_value = NoValue
    /\ file_path = "NULL"
    /\ LogdataIdle

Init ==
    \E f \in Files, r \in RowCounts, c \in ColCounts, s \in 1..MaxSeconds :
        InitWith(f, r, c, s) /\ arrivals = Untracked

\* ------------------------------------------------------------- environment
\* The one-second alarm expires: SIGALRM is generated for the process.
AlarmExpires ==
    /\ status = "running"
    /\ alarmArmed
    /\ alarmArmed' = FALSE
    /\ pending' = pending \cup {SIGALRM}
    /\ arrivals' = Follow(arrivals, pending')
    /\ UNCHANGED <<config, fileOpen, head, start_line_number,
                   display_and_exit, paused, time_to_scroll, status,
                   exitCode, screen, ticks, pausedTicks, popped, renders, seen,
                   extTerm>>

\* The alarm expires a second later.
AlarmFires ==
    /\ AlarmExpires
    /\ now' = now + 1

\* CTRL-Z or CTRL-C at the terminal.
SendPauseResume ==
    /\ status = "running"
    /\ \E sig \in {SIGTSTP, SIGINT} :
          /\ sig \notin pending
          /\ pending' = pending \cup {sig}
    /\ arrivals' = Follow(arrivals, pending')
    /\ UNCHANGED <<config, fileOpen, head, start_line_number,
                   display_and_exit, paused, time_to_scroll, alarmArmed,
                   status, exitCode, screen, now, ticks, pausedTicks, popped,
                   renders, seen, extTerm>>

\* CTRL-\ or another terminating signal from outside.
SendTerminate ==
    /\ status = "running"
    /\ \E sig \in TermSignals :
          /\ sig \notin pending
          /\ pending' = pending \cup {sig}
    /\ extTerm' = TRUE
    /\ arrivals' = Follow(arrivals, pending')
    /\ UNCHANGED <<config, fileOpen, head, start_line_number,
                   display_and_exit, paused, time_to_scroll, alarmArmed,
                   status, exitCode, screen, now, ticks, pausedTicks, popped,
                   renders, seen>>

\* A child, job-control, urgent-data or window-size signal is generated
\* for the process: a signal of the mask stays pending for sigwait(), any
\* other gets its default action.  SIGCONT discards a pending SIGTSTP.
SendJobControl ==
    /\ status = "running"
    /\ \E sig \in JobSignals :
          /\ jobSeen' = jobSeen \cup {sig}
          /\ IF sig \in SignalMask
             THEN /\ pending' = pending \cup {sig}
                  /\ stopped' = stopped
             ELSE /\ pending' = IF sig = SIGCONT
                                THEN pending \ {SIGTSTP}
                                ELSE pending
                  /\ stopped' = DefaultAction(sig, stopped)
    /\ arrivals' = Follow(arrivals, pending')
    /\ UNCHANGED <<file, ws_row, ws_col, seconds, startup, logdata, fileOpen,
                   head, start_line_number, display_and_exit, paused,
                   time_to_scroll, alarmArmed, status, exitCode, screen, now,
                   ticks, pausedTicks, popped, renders, seen, extTerm>>

\* ------------------------------------------------------------- the loop
\* the quit paths left without raise(SIGQUIT)
PendingAfterAlarmNoQuit(pend, end) == pend \ {SIGALRM}

\* the pending signals after the SIGALRM case: sigwait() has taken SIGALRM,
\* and the quit paths have raised SIGQUIT, which is blocked
PendingAfterAlarm(pend, end) ==
    IF end = "quit" THEN (pend \ {SIGALRM}) \cup {SIGQUIT}
    ELSE pend \ {SIGALRM}

\* The SIGALRM case; counted tells whether the tick and its frame are
\* counted in ticks, pausedTicks and renders.
AlarmCase(counted) ==
    /\ status = "running"
    /\ ~stopped
    /\ SIGALRM \in pending
    /\ LET r == AlarmBody(ProgramState, paused, ws_row, ws_col, seconds, now)
       IN  /\ head' = r.head
           /\ start_line_number' = r.start_line_number
           /\ time_to_scroll' = r.time_to_scroll
           /\ display_and_exit' = r.display_and_exit
           /\ screen' = r.screen
           /\ pending' = PendingAfterAlarm(pending, r.end)
           /\ alarmArmed' = Rearm(r.end)
           /\ status' = IF r.end = "crash" THEN "crashed" ELSE status
           /\ popped' = IF r.scrolled THEN popped + 1 ELSE popped
           /\ renders' = IF counted /\ r.end = "render"
                         THEN renders + 1 ELSE renders
           /\ seen' = seen \cup {r.screen.shown[i].content :
                                     i \in 1..Len(r.screen.shown)}
    /\ ticks' = IF counted THEN ticks + 1 ELSE ticks
    /\ pausedTicks' = IF counted /\ paused
                      THEN pausedTicks + 1 ELSE pausedTicks
    /\ arrivals' = Follow(arrivals, pending')
    /\ UNCHANGED <<config, fileOpen, paused, exitCode, now, extTerm>>

\* sigwait() returns SIGALRM; at most MaxPausedTicks ticks are handled
\* while paused.
HandleAlarm ==
    /\ paused => pausedTicks < MaxPausedTicks
    /\ AlarmCase(TRUE)

\* sigwait() returns SIGTSTP.
HandleTSTP ==
    /\ status = "running"
    /\ ~stopped
    /\ SIGTSTP \in pending
    /\ pending' = pending \ {SIGTSTP}
    /\ paused' = TRUE
    /\ arrivals' = Follow(arrivals, pending')
    /\ UNCHANGED <<config, fileOpen, head, start_line_number,
                   display_and_exit, time_to_scroll, alarmArmed, status,
                   exitCode, screen, now, ticks, pausedTicks, popped,
                   renders, seen,
                   extTerm>>

\* sigwait() returns SIGINT.
HandleINT ==
    /\ status = "running"
    /\ ~stopped
    /\ SIGINT \in pending
    /\ pending' = pending \ {SIGINT}
    /\ paused' = FALSE
    /\ arrivals' = Follow(arrivals, pending')
    /\ UNCHANGED <<config, fileOpen, head, start_line_number,
                   display_and_exit, time_to_scroll, alarmArmed, status,
                   exitCode, screen, now, ticks, pausedTicks, popped,
                   renders, seen,
                   extTerm>>

\* the default case leaves the screen as it is
ScreenKept(scr) == scr

\* the default case clears the screen
ScreenCleared(scr) == BlankScreen

\* sigwait() returns any other signal: the default case.
HandleDefault ==
    /\ status = "running"
    /\ ~stopped
    /\ \E sig \in pending \ {SIGALRM, SIGTSTP, SIGINT} :
          pending' = pending \ {sig}
    /\ screen' = ScreenCleared(screen)
    /\ fileOpen' = FALSE
    /\ status' = "exited"
    /\ exitCode' = 0
    /\ arrivals' = Follow(arrivals, pending')
    /\ UNCHANGED <<config, head, start_line_number, display_and_exit, paused,
                   time_to_scroll, alarmArmed, now, ticks, pausedTicks,
                   popped, renders, seen, extTerm>>

Next ==
    \/ AlarmFires
    \/ SendPauseResume
    \/ SendTerminate
    \/ HandleAlarm
    \/ HandleTSTP
    \/ HandleINT
    \/ HandleDefault

Spec == Init /\ [][Next]_vars

\* ------------------------------------------------------------- start-up
\* what main() has not set up before the loop
loopVars == <<head, start_line_number, display_and_exit, paused,
              time_to_scroll, pending, alarmArmed, screen, now, ticks,
              pausedTicks, popped, renders, seen, extTerm, arrivals>>

\* One getopt() call that returns an option, and the switch on it.
GetoptNext ==
    /\ pc = "getopt"
    /\ optind <= Len(cmdline)
    /\ LET a == cmdline[optind]
           fail == \/ a.tok = "x"
                   \/ a.tok = "s" /\ a.val.kind = "missing"
                   \/ a.tok = "s" /\ s_option
       IN  IF fail
           THEN /\ status' = "exited"
                /\ exitCode' = 1
                /\ pc' = "done"
                /\ UNCHANGED <<optind, s_option, s_value>>
           ELSE /\ optind' = optind + 1
                /\ s_option' = (s_option \/ a.tok = "s")
                /\ s_value' = IF a.tok = "s" THEN a.val ELSE s_value
                /\ UNCHANGED <<status, exitCode, pc>>
    /\ UNCHANGED <<file, ws_row, ws_col, seconds, cmdline, file_path,
                   fileOpen, stopped, jobSeen, loopVars, logdata>>

\* getopt() returns -1; the path is argv[optind], if there is one.
SaveFilePath ==
    /\ pc = "getopt"
    /\ optind > Len(cmdline)
    /\ IF Operands(cmdline) = <<>>
       THEN /\ status' = "exited"
            /\ exitCode' = 1
            /\ pc' = "done"
            /\ file_path' = file_path
       ELSE /\ file_path' = Operands(cmdline)[1].val.kind
            /\ pc' = "seconds"
            /\ UNCHANGED <<status, exitCode>>
    /\ UNCHANGED <<file, ws_row, ws_col, seconds, cmdline, optind, s_option,
                   s_value, fileOpen, stopped, jobSeen, loopVars, logdata>>

\* The interval: 1, or what strtol() makes of the argument of -s.
ExtractSeconds ==
    /\ pc = "seconds"
    /\ IF ~s_option
       THEN /\ seconds' = 1
            /\ pc' = "fopen"
            /\ UNCHANGED <<status, exitCode>>
       ELSE \E r \in Strtol(s_value) :
                /\ seconds' = ToInt(r)
                /\ IF r.errno \/ r.rest \/ ~InRange(ToInt(r))
                   THEN /\ status' = "exited"
                        /\ exitCode' = 1
                        /\ pc' = "done"
                   ELSE /\ pc' = "fopen"
                        /\ UNCHANGED <<status, exitCode>>
    /\ s_value' = IF pc' = "fopen" THEN NoValue ELSE s_value
    /\ UNCHANGED <<file, ws_row, ws_col, cmdline, optind, s_option,
                   file_path, fileOpen, stopped, jobSeen, loopVars, logdata>>

\* fopen(file_path, "r")
OpenFile ==
    /\ pc = "fopen"
    /\ IF file_path = "readable"
       THEN /\ fileOpen' = TRUE
            /\ file_path' = "NULL"
            /\ pc' = "read"
            /\ UNCHANGED <<status, exitCode>>
       ELSE /\ status' = "exited"
            /\ exitCode' = 1
            /\ pc' = "done"
            /\ UNCHANGED <<fileOpen, file_path>>
    /\ UNCHANGED <<file, ws_row, ws_col, seconds, cmdline, optind, s_option,
                   s_value, stopped, jobSeen, loopVars, logdata>>

\* The lines are read into the list, the terminal size is taken, the
\* tracking variables are set and SIGALRM is raised.
ReadLines ==
    /\ pc = "read"
    /\ head' = LoadLines(<<>>, file)
    /\ start_line_number' = 1
    /\ display_and_exit' = FALSE
    /\ paused' = FALSE
    /\ time_to_scroll' = seconds
    /\ pending' = pending \cup {SIGALRM}
    /\ status' = "running"
    /\ pc' = "loop"
    /\ arrivals' = Follow(arrivals, pending')
    /\ UNCHANGED <<file, ws_row, ws_col, seconds, cmdline, optind, s_option,
                   s_value, file_path, fileOpen, stopped, jobSeen, alarmArmed,
                   exitCode, screen, now, ticks, pausedTicks, popped,
                   renders, seen,
                   extTerm, logdata>>

\* the file and the terminal of the runs from the command line
StartFile == MkFile(<<3, 1, 3, 1>>, FALSE)

StartTerminal == [ws_row |-> 3, ws_col |-> 2]

\* main() at the first getopt() call
InitMain ==
    /\ cmdline \in CmdLines
    /\ file = StartFile
    /\ ws_row = StartTerminal.ws_row
    /\ ws_col = StartTerminal.ws_col
    /\ seconds = 1
    /\ optind = 1
    /\ pc = "getopt"
    /\ s_option = FALSE
    /\ s_value = NoValue
    /\ file_path = "NULL"
    /\ fileOpen = FALSE
    /\ stopped = FALSE
    /\ jobSeen = {}
    /\ head = <<>>
    /\ start_line_number = 1
    /\ display_and_exit = FALSE
    /\ paused = FALSE
    /\ time_to_scroll = 0
    /\ pending = {}
    /\ arrivals = Untracked
    /\ alarmArmed = FALSE
    /\ status = "starting"
    /\ exitCode = 0
    /\ screen = BlankScreen
    /\ now = 0
    /\ ticks = 0
    /\ pausedTicks = 0
    /\ popped = 0
    /\ renders = 0
    /\ seen = {}
    /\ extTerm = FALSE
    /\ LogdataIdle

NextMain ==
    \/ GetoptNext
    \/ SaveFilePath
    \/ ExtractSeconds
    \/ OpenFile
    \/ ReadLines
    \/ AlarmFires
    \/ SendPauseResume
    \/ SendTerminate
    \/ HandleAlarm
    \/ HandleTSTP
    \/ HandleINT
    \/ HandleDefault

SpecMain == InitMain /\ [][NextMain]_vars

\* ------------------------------------------------------------- job control
\* the loop with the signals that are not in the mask
InitJobControl ==
    /\ InitWith(StartFile, StartTerminal.ws_row, StartTerminal.ws_col, 1)
    /\ arrivals = Untracked

NextJobControl ==
    \/ SendJobControl
    \/ AlarmFires
    \/ SendPauseResume
    \/ SendTerminate
    \/ HandleAlarm
    \/ HandleTSTP
    \/ HandleINT
    \/ HandleDefault

SpecJobControl == InitJobControl /\ [][NextJobControl]_vars

\* ------------------------------------------------------------- order
\* Runs that follow the order in which the pending signals were generated:
\* the first sigwait(), the SIGALRM of raise() the one signal pending.
InitOrder ==
    \E s \in 1..MaxSeconds :
        /\ InitWith(StartFile, StartTerminal.ws_row, StartTerminal.ws_col, s)
        /\ arrivals = <<SIGALRM>>

NextOrder ==
    \/ AlarmFires
    \/ SendPauseResume
    \/ SendTerminate
    \/ HandleAlarm
    \/ HandleTSTP
    \/ HandleINT
    \/ HandleDefault

SpecOrder == InitOrder /\ [][NextOrder]_vars

\* Runs of any length: the ticks handled while paused are not limited and
\* not counted, and the clock is the time of day that the status bar
\* shows, which comes round again.
ClockPeriod == 2       \* seconds in a day of the bounded runs

\* The alarm expires a second later, by the time of day.
AlarmFiresByDay ==
    /\ AlarmExpires
    /\ now' = (now + 1) % ClockPeriod

\* sigwait() returns SIGALRM while the viewer is not paused.
HandleAlarmRunning ==
    /\ ~paused
    /\ AlarmCase(TRUE)

\* sigwait() returns SIGALRM while the viewer is paused.
HandleAlarmPaused ==
    /\ paused
    /\ AlarmCase(FALSE)

\* the first sigwait() on a file that is not empty
InitLive ==
    \E f \in Files \ {<<>>}, r \in RowCounts, c \in ColCounts,
       s \in 1..MaxSeconds :
        InitWith(f, r, c, s) /\ arrivals = Untracked

NextLive ==
    \/ AlarmFiresByDay
    \/ SendPauseResume
    \/ HandleAlarmRunning
    \/ HandleAlarmPaused
    \/ HandleTSTP
    \/ HandleINT
    \/ HandleDefault

\* sigwait() returns SIGALRM: the signal is pending no more, and the case
\* may have raised SIGQUIT.  These are the steps of HandleAlarmRunning and
\* HandleAlarmPaused, and they are possible in the same states.
SigwaitReturnsAlarm ==
    /\ status = "running"
    /\ ~stopped
    /\ SIGALRM \in pending
    /\ \E raised \in SUBSET {SIGQUIT} :
          pending' = (pending \ {SIGALRM}) \cup raised

\* An armed alarm expires; the loop comes back to sigwait(), and a pending
\* SIGALRM or SIGQUIT is returned by it in the end.  Nothing is assumed
\* of when a pending SIGTSTP or SIGINT is returned.
Fairness ==
    /\ WF_vars(AlarmFiresByDay)
    /\ WF_pending(SigwaitReturnsAlarm)
    /\ WF_vars(HandleDefault)

SpecLive == InitLive /\ [][NextLive]_vars /\ Fairness

\* getline() length of line i of a file of short lines: a bare newline,
\* forty characters, or eighty characters and the newline
ShortLen(i) == IF i % 3 = 0 THEN 1 ELSE IF i % 3 = 1 THEN 41 ELSE 81

\* three short lines, 10 rows by 80 columns, interval 1
Scenario3 == [lines |-> 3, ws_row |-> 10, ws_col |-> 80, seconds |-> 1]

\* a hundred short lines, 5 rows by 80 columns, interval 2
Scenario100 == [lines |-> 100, ws_row |-> 5, ws_col |-> 80, seconds |-> 2]

ShortFiles(n) ==
    {MkFile([i \in 1..n |-> ShortLen(i)], u) : u \in BOOLEAN}

InitScenario(sc) ==
    \E f \in ShortFiles(sc.lines) :
        InitWith(f, sc.ws_row, sc.ws_col, sc.seconds) /\ arrivals = Untracked

InitScenario3 == InitScenario(Scenario3)

InitScenario100 == InitScenario(Scenario100)

SpecScenario3 == InitScenario3 /\ [][Next]_vars

SpecScenario100 == InitScenario100 /\ [][Next]_vars

\* ------------------------------------------------------------- helpers
Min(a, b) == IF a < b THEN a ELSE b

RECURSIVE SumSeq(_)
SumSeq(q) == IF q = <<>> THEN 0 ELSE Head(q) + SumSeq(Tail(q))

\* ------------------------------------------------------------- logdata
(***************************************************************************)
(* logdata of src/basics.c: the loop over the wtmp records, which keeps   *)
(* a list of users with their open lines, and the report it prints.       *)
(* Strings are sequences of characters.                                   *)
(***************************************************************************)
MaxRecords == 3        \* records in the wtmp file
MaxUsers == 2          \* users of a report that is printed from a given list

\* sizeof(current_user->username), a char *
PointerSize == 8

Username1 == <<"u", "s", "e", "r", "n", "a", "m", "e", "1">>
Username2 == <<"u", "s", "e", "r", "n", "a", "m", "e", "2">>
Pts1 == <<"p", "t", "s", "/", "1">>
Pts10 == <<"p", "t", "s", "/", "1", "0">>
Tilde == <<"~">>
Shutdown == <<"s", "h", "u", "t", "d", "o", "w", "n">>
TotalLabel == <<"T", "O", "T", "A", "L", ":">>

UserNames == {Username1, Username2}

LineNames == {Pts1, Pts10}

\* strncmp(a, b, n) == 0
StrnEq(a, b, n) ==
    SubSeq(a, 1, Min(n, Len(a))) = SubSeq(b, 1, Min(n, Len(b)))

\* ut_type, ut_user and ut_line of the records of the bounded files: a
\* login of a user on a line, a logout on a line or on no line, a boot and
\* a shutdown
RecordKinds ==
    {[ut_type |-> "USER_PROCESS", ut_user |-> u, ut_line |-> l] :
        u \in UserNames, l \in LineNames}
    \cup {[ut_type |-> "DEAD_PROCESS", ut_user |-> <<>>, ut_line |-> l] :
            l \in LineNames \cup {<<>>}}
    \cup {[ut_type |-> "BOOT_TIME", ut_user |-> <<"r", "e", "b", "o", "o", "t">>,
           ut_line |-> Tilde],
          [ut_type |-> "RUN_LVL", ut_user |-> Shutdown, ut_line |-> Tilde]}

\* ut_tv.tv_sec of record i of a file written in order of time; the time
\* between any two records tells which two they are
StampAt(i) == 2 ^ i

WtmpFiles ==
    {[i \in 1..Len(ks) |->
        [ut_type |-> ks[i].ut_type, ut_user |-> ks[i].ut_user,
         ut_line |-> ks[i].ut_line, tv_sec |-> StampAt(i)]] :
     ks \in SeqsUpTo(RecordKinds, MaxRecords)}

\* a struct user
NewUser(name, lines) ==
    [username |-> name, total_time |-> 0, lines |-> lines]

\* the list of the usernames of the command line: each is put in front
RECURSIVE PredefinedUsers(_)
PredefinedUsers(names) ==
    IF names = <<>> THEN <<>>
    ELSE PredefinedUsers(Tail(names)) \o <<NewUser(Head(names), <<>>)>>

\* the record is a shutdown or a boot
IsShutdown(e) ==
    \/ StrnEq(e.ut_line, Tilde, 1) /\ StrnEq(e.ut_user, Shutdown, 8)
    \/ e.ut_type = "BOOT_TIME"

\* a user with only the first open line closed at time t
CloseFirst(u, t) ==
    IF u.lines = <<>> THEN u
    ELSE [u EXCEPT !.total_time = @ + (t - u.lines[1].start),
                   !.lines = Tail(@)]

\* a user with every open line closed at time t
CloseAll(u, t) ==
    [u EXCEPT !.total_time =
                  @ + SumSeq([i \in 1..Len(u.lines) |-> t - u.lines[i].start]),
              !.lines = <<>>]

\* the users whose username compares equal to ut_user, by list position
UserMatches(list, ut_user) ==
    {i \in 1..Len(list) : StrnEq(list[i].username, ut_user, PointerSize)}

\* the open lines of a user whose name compares equal to ut_line
LineMatches(u, ut_line) ==
    {j \in 1..Len(u.lines) :
        StrnEq(u.lines[j].name, ut_line, Len(u.lines[j].name))}

\* the least element of a non-empty set of numbers
Least(S) == CHOOSE x \in S : \A y \in S : x <= y

\* q without its j-th element
Without(q, j) == SubSeq(q, 1, j - 1) \o SubSeq(q, j + 1, Len(q))

\* the user list after a login record, record number n of the file
AfterLogin(list, e, n, all) ==
    LET line == [name |-> e.ut_line, start |-> e.tv_sec, rec |-> n]
        found == UserMatches(list, e.ut_user)
    IN  IF found # {}
        THEN [list EXCEPT ![Least(found)].lines = <<line>> \o @]
        ELSE IF all
        THEN <<NewUser(e.ut_user, <<line>>)>> \o list
        ELSE list

\* the first user with an open line that matches, and that line
FindLine(list, ut_line) ==
    LET us == {i \in 1..Len(list) : LineMatches(list[i], ut_line) # {}}
    IN  IF us = {} THEN [found |-> FALSE, user |-> 0, line |-> 0]
        ELSE [found |-> TRUE, user |-> Least(us),
              line |-> Least(LineMatches(list[Least(us)], ut_line))]

\* the user list after a logout record
AfterLogout(list, e) ==
    LET f == FindLine(list, e.ut_line)
    IN  IF e.ut_line = <<>> \/ ~f.found THEN list
        ELSE [list EXCEPT
                 ![f.user].total_time =
                     @ + (e.tv_sec - list[f.user].lines[f.line].start),
                 ![f.user].lines = Without(@, f.line)]

\* the login records of the open lines
OpenRecs(list) ==
    UNION {{list[i].lines[j].rec : j \in 1..Len(list[i].lines)} :
              i \in 1..Len(list)}

\* the login records whose time a record adds to a total
Credits(list, e) ==
    IF IsShutdown(e) THEN OpenRecs(list)
    ELSE IF e.ut_type = "DEAD_PROCESS" /\ e.ut_line # <<>>
              /\ FindLine(list, e.ut_line).found
    THEN LET f == FindLine(list, e.ut_line)
         IN  {list[f.user].lines[f.line].rec}
    ELSE {}

\* the hours not reduced modulo 24
ComponentsHoursWhole(total) ==
    LET minutes == (total \div 60) % 60
        hours == total \div 3600
        days == total \div 86400
    IN  [days |-> days, hours |-> hours, minutes |-> minutes,
         seconds |-> total - (60 * minutes + 3600 * hours + 86400 * days)]

\* days, hours, minutes and seconds of a total
Components(total) ==
    LET minutes == (total \div 60) % 60
        hours == (total \div 3600) % 24
        days == total \div 86400
    IN  [days |-> days, hours |-> hours, minutes |-> minutes,
         seconds |-> total - (60 * minutes + 3600 * hours + 86400 * days)]

\* one printf() of a row: what it prints, the number in it, whether the
\* unit has its s, whether it ends the line
Printed(k, name, n, nl) ==
    [k |-> k, name |-> name, n |-> n, plural |-> n # 1, nl |-> nl]

\* the printf() calls for one user or for the TOTAL row
Row(name, total) ==
    LET c == Components(total)
    IN  <<Printed("name", name, 0, FALSE)>>
        \o (IF c.days # 0
            THEN <<Printed("day", <<>>, c.days, FALSE)>> ELSE <<>>)
        \o (IF c.hours # 0
            THEN <<Printed("hour", <<>>, c.hours, FALSE)>> ELSE <<>>)
        \o (IF c.minutes # 0
            THEN <<Printed("min", <<>>, c.minutes, FALSE)>> ELSE <<>>)
        \o (IF c.seconds # 0
               \/ (c.days = 0 /\ c.hours = 0 /\ c.minutes = 0)
            THEN <<Printed("sec", <<>>, c.seconds, TRUE)>> ELSE <<>>)

\* the viewer is not run
AutoscrollIdle ==
    /\ file = <<>>
    /\ ws_row = 1
    /\ ws_col = 1
    /\ seconds = 1
    /\ head = <<>>
    /\ start_line_number = 1
    /\ display_and_exit = FALSE
    /\ paused = FALSE
    /\ time_to_scroll = 0
    /\ pending = {}
    /\ arrivals = Untracked
    /\ alarmArmed = FALSE
    /\ status = "idle"
    /\ exitCode = 0
    /\ screen = BlankScreen
    /\ now = 0
    /\ ticks = 0
    /\ pausedTicks = 0
    /\ popped = 0
    /\ renders = 0
    /\ seen = {}
    /\ extTerm = FALSE
    /\ fileOpen = FALSE
    /\ stopped = FALSE
    /\ jobSeen = {}
    /\ cmdline = <<>>
    /\ optind = 1
    /\ pc = "idle"
    /\ s_option = FALSE
    /\ s_value = NoValue
    /\ file_path = "NULL"

autoscroll == <<file, ws_row, ws_col, seconds, head, start_line_number,
                display_and_exit, paused, time_to_scroll, pending,
                alarmArmed, status, exitCode, screen, now, ticks,
                pausedTicks, popped, renders, seen, extTerm, arrivals,
                fileOpen, stopped, jobSeen, startup>>

\* One turn of the loop over the records.
ReadRecord ==
    /\ lpc = "read"
    /\ rec_idx <= Len(records)
    /\ LET e == records[rec_idx]
       IN  /\ user_list' =
                 IF IsShutdown(e)
                 THEN [i \in 1..Len(user_list) |->
                          CloseAll(user_list[i], e.tv_sec)]
                 ELSE IF e.ut_type = "USER_PROCESS"
                 THEN AfterLogin(user_list, e, rec_idx, all_users)
                 ELSE IF e.ut_type = "DEAD_PROCESS"
                 THEN AfterLogout(user_list, e)
                 ELSE user_list
           /\ credited' = credited \cup Credits(user_list, e)
    /\ rec_idx' = rec_idx + 1
    /\ UNCHANGED <<autoscroll, records, all_users, sum_totals, sum, out, lpc>>

\* getutxent() returns NULL: the first leftover line of every user is
\* deleted.
EndRecords ==
    /\ lpc = "read"
    /\ rec_idx > Len(records)
    /\ user_list' =
          [i \in 1..Len(user_list) |->
              [user_list[i] EXCEPT
                  !.lines = IF @ = <<>> THEN <<>> ELSE Tail(@)]]
    /\ lpc' = "print"
    /\ UNCHANGED <<autoscroll, records, rec_idx, all_users, sum_totals, sum,
                   out, credited>>

\* One turn of the printing loop.
PrintUser ==
    /\ lpc = "print"
    /\ user_list # <<>>
    /\ LET u == Head(user_list)
       IN  /\ sum' = IF sum_totals THEN sum + u.total_time ELSE sum
           /\ out' = out \o Row(u.username, u.total_time)
    /\ user_list' = Tail(user_list)
    /\ UNCHANGED <<autoscroll, records, rec_idx, all_users, sum_totals, lpc,
                   credited>>

\* After the loop: the TOTAL row under -s, and return 0.
PrintTotal ==
    /\ lpc = "print"
    /\ user_list = <<>>
    /\ out' = IF sum_totals THEN out \o Row(TotalLabel, sum) ELSE out
    /\ lpc' = "done"
    /\ UNCHANGED <<autoscroll, records, rec_idx, all_users, sum_totals,
                   user_list, sum, credited>>

\* the usernames of the command lines of the bounded runs
NameLists == {<<Username1>>, <<Username1, Username2>>}

\* logdata at the first getutxent()
InitLogdata ==
    /\ AutoscrollIdle
    /\ records \in WtmpFiles
    /\ rec_idx = 1
    /\ all_users \in BOOLEAN
    /\ sum_totals \in BOOLEAN
    /\ user_list \in IF all_users THEN {<<>>}
                     ELSE {PredefinedUsers(names) : names \in NameLists}
    /\ sum = 0
    /\ out = <<>>
    /\ lpc = "read"
    /\ credited = {}

NextLogdata ==
    \/ ReadRecord
    \/ EndRecords
    \/ PrintUser
    \/ PrintTotal

SpecLogdata == InitLogdata /\ [][NextLogdata]_vars

\* the totals of the reports printed from a given list
Totals == {0, 1, 59, 60, 61, 3600, 3661, 86400, 90061, 172800}

\* logdata at the printing loop, after any records
InitReport ==
    /\ AutoscrollIdle
    /\ records = <<>>
    /\ rec_idx = 1
    /\ all_users = FALSE
    /\ sum_totals \in BOOLEAN
    /\ user_list \in
          SeqsUpTo({[username |-> n, total_time |-> t, lines |-> <<>>] :
                       n \in UserNames, t \in Totals}, MaxUsers)
    /\ sum = 0
    /\ out = <<>>
    /\ lpc = "print"
    /\ credited = {}

NextReport ==
    \/ PrintUser
    \/ PrintTotal

SpecReport == InitReport /\ [][NextReport]_vars

\* ------------------------------------------------------------- properties
\* q is the first Len(q) elements of r
IsPrefix(q, r) == Len(q) <= Len(r) /\ q = SubSeq(r, 1, Len(q))

\* a step that handles SIGALRM
IsTick == ticks' = ticks + 1

\* a scroll event: the first line of the list is removed
IsScroll == popped' # popped

\* C1: every scroll event that leaves the list non-empty removes exactly the
\* first line and adds exactly 1 to start_line_number, and the frame it
\* renders starts one line after the frame before it; a tick without a
\* scroll event renders from the same first line again.
C1_ScrollAdvancesByOne ==
    [][/\ IsScroll /\ head' # <<>> =>
            /\ popped' = popped + 1
            /\ head' = Tail(head)
            /\ start_line_number' = start_line_number + 1
            /\ screen'.drawn /\ screen'.first = start_line_number + 1
            /\ screen.drawn => screen'.first = screen.first + 1
       /\ ~IsScroll =>
            /\ head' = head
            /\ start_line_number' = start_line_number
            /\ screen.drawn /\ screen'.drawn => screen'.first = screen.first
      ]_vars

\* the first frame leaves a line of the file out
MoreLinesThanFit ==
    /\ file # <<>>
    /\ PrintLoop(file, <<>>, <<>>, 0, ws_row, ws_col).walker # <<>>

\* a file of more lines than one frame holds, scrolled twice, its third
\* line on the screen
C1_Witness ==
    /\ MoreLinesThanFit
    /\ popped = 2
    /\ start_line_number = 3
    /\ screen.drawn /\ screen.first = 3 /\ screen.shown = head

\* C2: right after every scroll event that leaves the list non-empty,
\* time_to_scroll equals the interval.
C2_CountdownReset ==
    [][IsScroll /\ head' # <<>> => time_to_scroll' = seconds]_vars

\* the countdown back at the largest interval after a scroll event
C2_Witness ==
    /\ popped >= 1
    /\ head # <<>>
    /\ seconds = MaxSeconds
    /\ time_to_scroll = seconds

\* the scroll events after t unpaused ticks at interval s: none up to tick
\* s, the first on tick s + 1, one more every s ticks
Scheduled(t, s) == IF t <= s THEN 0 ELSE 1 + (t - s - 1) \div s

\* C3: with no tick handled while paused, the first tick renders without
\* scrolling, and a viewer that scrolls has popped its first line on tick
\* seconds + 1 and one more line every seconds ticks after that.
C3_ScrollSchedule ==
    /\ ticks = 1 /\ file # <<>> => renders = 1 /\ popped = 0
    /\ pausedTicks = 0 /\ ~display_and_exit =>
            popped = Scheduled(ticks, seconds)

\* the second scroll event, on tick 2 * seconds + 1
C3_Witness ==
    /\ pausedTicks = 0
    /\ seconds = MaxSeconds
    /\ popped = 2
    /\ ticks = 2 * seconds + 1

\* the first frame prints every line of the file and leaves a row free
FirstFrameShowsAll ==
    /\ file # <<>>
    /\ LET l == PrintLoop(file, <<>>, <<>>, 0, ws_row, ws_col)
       IN  l.walker = <<>> /\ l.physical < ws_row - 1

\* C4 as stated: a file that the first frame shows whole, with a row to
\* spare, is rendered exactly once before the viewer exits, and is never
\* scrolled.
C4_RendersOnce ==
    FirstFrameShowsAll =>
        /\ popped = 0
        /\ status = "exited" /\ ~extTerm /\ pausedTicks = 0 => renders = 1

\* C4 amended: such a file is rendered once per tick until the countdown
\* has run out, seconds times and once more for every tick handled while
\* paused, then the viewer exits with status 0; it is never scrolled.
C4_RendersUntilCountdown ==
    FirstFrameShowsAll =>
        /\ popped = 0
        /\ head = file
        /\ status = "exited" /\ ~extTerm =>
              /\ renders = seconds + pausedTicks
              /\ ticks = renders + 1
              /\ exitCode = 0

\* display-and-exit at the largest interval, never paused
C4_Witness ==
    /\ FirstFrameShowsAll
    /\ status = "exited" /\ ~extTerm
    /\ pausedTicks = 0
    /\ seconds = MaxSeconds
    /\ renders = seconds

\* the program state of a run that is never paused, after k ticks
RECURSIVE Uninterrupted(_)
Uninterrupted(k) ==
    IF k = 0
    THEN [head |-> file, start_line_number |-> 1,
          time_to_scroll |-> seconds, display_and_exit |-> FALSE]
    ELSE LET r == AlarmBody(Uninterrupted(k - 1), FALSE, ws_row, ws_col,
                            seconds, 0)
         IN  [head |-> r.head, start_line_number |-> r.start_line_number,
              time_to_scroll |-> r.time_to_scroll,
              display_and_exit |-> r.display_and_exit]

\* C5: after k ticks handled while not paused, whatever pauses and resumes
\* came between them, start_line_number, the list and the countdown are
\* those of the run that is never paused after k ticks.
C5_PauseResumeEquivalent ==
    LET u == Uninterrupted(ticks - pausedTicks)
    IN  /\ head = u.head
        /\ start_line_number = u.start_line_number
        /\ time_to_scroll = u.time_to_scroll

\* paused for a tick, resumed, and scrolled since
C5_Witness ==
    /\ pausedTicks >= 1
    /\ ~paused
    /\ popped >= 2
    /\ head # <<>>
    /\ screen.drawn /\ screen.clock > seconds * 2

\* C6: a tick handled while paused (the list not empty) clears the screen,
\* renders the frame again from the same first line with the clock read at
\* that tick, and arms the alarm again; it leaves the countdown,
\* start_line_number and the list as they were, pops nothing, does not take
\* the display-and-exit branch (no SIGQUIT is raised, the viewer keeps
\* running) and never clears display_and_exit.
C6_PausedTickOnlyRedraws ==
    [][IsTick /\ paused /\ head # <<>> =>
          /\ screen'.drawn
          /\ screen'.clock = now
          /\ screen'.first = start_line_number
          /\ renders' = renders + 1
          /\ alarmArmed'
          /\ time_to_scroll' = time_to_scroll
          /\ start_line_number' = start_line_number
          /\ head' = head
          /\ popped' = popped
          /\ status' = status
          /\ SIGQUIT \in pending' => SIGQUIT \in pending
          /\ display_and_exit => display_and_exit'
      ]_vars

\* a frame drawn by a paused tick with a later clock than the first frame,
\* at a countdown that had run out
C6_Witness ==
    /\ paused
    /\ pausedTicks >= 1
    /\ screen.drawn /\ screen.clock >= 1
    /\ alarmArmed
    /\ time_to_scroll <= 0

\* the rows the lines of a frame take on a terminal of ws_col columns
FrameRows(shown) ==
    SumSeq([i \in 1..Len(shown) |-> ActualRows(shown[i], ws_col)])

\* C7: the lines of a frame are whole lines from the head of the list, the
\* rows charged for each are the rows it takes on the terminal, and the
\* rows the frame takes are at most ws_row - 1.
C7_FrameWithinBudget ==
    screen.drawn =>
        /\ IsPrefix(screen.shown, head)
        /\ \A i \in 1..Len(screen.shown) :
              screen.charged[i] = ActualRows(screen.shown[i], ws_col)
        /\ FrameRows(screen.shown) <= ws_row - 1

\* C8: a line that is only a newline is charged exactly 1 row in every
\* frame that shows it, at every column count.
C8_BareNewlineOneRow ==
    screen.drawn =>
        \A i \in 1..Len(screen.shown) :
            screen.shown[i].length = 1 /\ screen.shown[i].nl =>
                screen.charged[i] = 1

\* a frame of two bare newlines at the widest terminal
C8_Witness ==
    /\ screen.drawn
    /\ ws_col = 2
    /\ Len(screen.shown) >= 2
    /\ \A i \in 1..2 : screen.shown[i].length = 1 /\ screen.shown[i].nl
    /\ screen.physical = 2

\* C9: three short lines, 10 rows by 80 columns, interval 1: every frame
\* shows lines 1 to 3 with the status bar range 1-3, the first tick renders
\* it, nothing is scrolled, and the viewer left alone exits with status 0
\* on the second tick, after that one render.
C9_ThreeLinesOnce ==
    /\ screen.drawn =>
          screen.first = 1 /\ screen.last = 3 /\ screen.shown = file
    /\ ticks >= 1 => renders >= 1
    /\ popped = 0
    /\ pausedTicks = 0 => renders <= 1
    /\ status = "exited" /\ ~extTerm /\ pausedTicks = 0 =>
          renders = 1 /\ ticks = 2 /\ exitCode = 0

\* the viewer left alone has shown the three lines once and exited
C9_Witness ==
    /\ Len(file) = 3 /\ ws_row = 10 /\ ws_col = 80 /\ seconds = 1
    /\ status = "exited" /\ ~extTerm /\ pausedTicks = 0
    /\ renders = 1
    /\ display_and_exit

\* C10 as stated: a hundred short lines, 5 rows by 80 columns, interval 2:
\* every frame shows exactly 4 lines.
C10_AlwaysFourLines ==
    screen.drawn => Len(screen.shown) = 4

\* C10 amended: every frame shows the 4 lines from start_line_number on
\* while at least 4 lines are left, and the 3, 2 or 1 lines that are left
\* once start_line_number is past 97.
C10_FourLinesOrRest ==
    screen.drawn =>
        /\ Len(screen.shown) = Min(4, Len(file) + 1 - screen.first)
        /\ screen.shown = SubSeq(head, 1, Len(screen.shown))
        /\ screen.last = screen.first + Len(screen.shown) - 1

\* the frame from line 98 shows three lines
C10_Witness ==
    /\ Len(file) = 100 /\ ws_row = 5 /\ ws_col = 80 /\ seconds = 2
    /\ screen.drawn
    /\ screen.first = 98
    /\ Len(screen.shown) = 3

\* C11 as stated: a hundred short lines, 5 rows by 80 columns, interval 2,
\* never paused: the start line is one more for every 2 ticks, and the
\* viewer left alone has emptied the list and exited with status 0 after
\* 198 ticks.
C11_ExhaustedAfter198 ==
    pausedTicks = 0 =>
        /\ head # <<>> => start_line_number = 1 + Scheduled(ticks, seconds)
        /\ status = "exited" /\ ~extTerm =>
              ticks = 198 /\ head = <<>> /\ exitCode = 0

\* C11 amended: the first line goes on tick 3 and one more line every 2
\* ticks, so the hundredth line goes on tick 201: the viewer left alone
\* handles exactly 201 ticks, the list is then empty and it exits with
\* status 0.
C11_ExhaustedAfter201 ==
    pausedTicks = 0 =>
        /\ head # <<>> => start_line_number = 1 + Scheduled(ticks, seconds)
        /\ popped = Scheduled(ticks, seconds)
        /\ ticks <= 1 + seconds * Len(file)
        /\ status = "exited" /\ ~extTerm =>
              /\ ticks = 201
              /\ popped = 100
              /\ head = <<>>
              /\ exitCode = 0

\* the viewer left alone has exited after its 201st tick
C11_Witness ==
    /\ Len(file) = 100 /\ ws_row = 5 /\ ws_col = 80 /\ seconds = 2
    /\ pausedTicks = 0
    /\ status = "exited" /\ ~extTerm
    /\ ticks = 201
    /\ head = <<>>

\* the argument of the first -s of a command line, NoValue without -s
TypedSeconds(c) ==
    LET ss == SelectSeq(c, LAMBDA a : a.tok = "s")
    IN  IF ss = <<>> THEN NoValue ELSE ss[1].val

\* the integer typed is one of 1..59
TypedInRange(v) == v.kind = "int" /\ v.hi = 0 /\ v.lo \in 1..59

\* an argument error: no file path, an unknown option, -s twice, -s
\* without its argument, or an argument of -s that is not an integer of
\* 1..59
ArgumentError(c) ==
    \/ Operands(c) = <<>>
    \/ \E i \in 1..Len(c) : c[i].tok = "x"
    \/ Len(SelectSeq(c, LAMBDA a : a.tok = "s")) > 1
    \/ \E i \in 1..Len(c) :
          c[i].tok = "s" /\ ~TypedInRange(c[i].val)

\* C12: a command line with an argument error never gets as far as
\* fopen(): the file is not opened, no line is read, no alarm is raised, no
\* frame is rendered, and the process ends with a non-zero exit status.
C12_ArgumentErrorsFailEarly ==
    ArgumentError(cmdline) =>
        /\ pc \in {"getopt", "seconds", "done"}
        /\ ~fileOpen
        /\ head = <<>>
        /\ pending = {}
        /\ renders = 0
        /\ pc = "done" => status = "exited" /\ exitCode # 0

\* C13: when -s is given and the viewer starts, the integer typed is one
\* of 1..59 and it is the interval.
C13_IntervalIsTyped ==
    status = "running" /\ TypedSeconds(cmdline).kind # "none" =>
        /\ TypedInRange(TypedSeconds(cmdline))
        /\ seconds = TypedSeconds(cmdline).lo

\* a step in which sigwait() returns a signal other than SIGALRM, SIGTSTP
\* and SIGINT
IsDefaultCase == \E sig \in pending \ {SIGALRM, SIGTSTP, SIGINT} : sig \notin pending'

\* C14: in every state of the loop, paused or not, latched or not, the
\* handling of any signal other than SIGALRM, SIGTSTP and SIGINT, the
\* self-raised SIGQUIT included, clears the screen, closes the file and
\* exits with status 0, and nothing is rendered or changed after it.
C14_DefaultCaseExits ==
    [][/\ IsDefaultCase =>
            /\ status = "running" /\ status' = "exited"
            /\ exitCode' = 0
            /\ screen' = BlankScreen
            /\ fileOpen /\ ~fileOpen'
            /\ renders' = renders
       /\ status = "exited" =>
            /\ status' = "exited"
            /\ renders' = renders
            /\ screen' = screen
      ]_vars

\* the self-raised SIGQUIT handled while paused with the latch set, after
\* a frame was rendered
C14_Witness ==
    /\ status = "exited" /\ exitCode = 0
    /\ ~extTerm
    /\ paused /\ display_and_exit
    /\ renders >= 1
    /\ screen = BlankScreen
    /\ ~fileOpen

\* C15: the status bar of every frame reads 'Lines: first-last' with
\* first the file line number of the first line displayed, last that of
\* the last line displayed, last = first + lines displayed - 1 and
\* first <= last.
C15_StatusBarRange ==
    screen.drawn =>
        /\ screen.shown # <<>>
        /\ screen.first = screen.shown[1].content
        /\ screen.last = screen.shown[Len(screen.shown)].content
        /\ screen.last = screen.first + Len(screen.shown) - 1
        /\ screen.first <= screen.last

\* C16: SIGCHLD, SIGCONT, SIGTTIN, SIGTTOU, SIGURG and SIGWINCH are never
\* pending for the wait, and a step in which one of them is generated
\* leaves the paused flag, the countdown, start_line_number, the list and
\* the running or terminated status as they are.
C16_JobSignalsIgnored ==
    /\ [](pending \cap JobSignals = {})
    /\ [][jobSeen' # jobSeen \/ stopped' # stopped =>
            UNCHANGED <<paused, time_to_scroll, start_line_number, head,
                        status, exitCode>>]_vars

\* all six signals were generated, the process was stopped and continued,
\* and the viewer has scrolled and is running
C16_Witness ==
    /\ jobSeen = JobSignals
    /\ ~stopped
    /\ status = "running"
    /\ popped = 1
    /\ screen.drawn /\ screen.first = 2

\* C17: the text printed for every user, and for the TOTAL row, ends with
\* a newline: every name is printed at the start of a line and the report
\* ends with a newline.
C17_OneRowPerLine ==
    /\ \A i \in 2..Len(out) : out[i].k = "name" => out[i - 1].nl
    /\ lpc = "done" /\ out # <<>> => out[Len(out)].nl

\* record i is a login that no later record closes: no later logout on
\* its own line, no later boot or shutdown
InProgress(recs, i) ==
    /\ recs[i].ut_type = "USER_PROCESS"
    /\ \A j \in (i + 1)..Len(recs) :
          /\ ~IsShutdown(recs[j])
          /\ ~(recs[j].ut_type = "DEAD_PROCESS"
                  /\ recs[j].ut_line = recs[i].ut_line)

\* C18: a login session still in progress at the end of the file adds
\* nothing to any total, whatever the records are.
C18_InProgressExcluded ==
    \A i \in credited : ~InProgress(records, i)

\* the seconds of a unit
UnitSeconds(k) ==
    CASE k = "day" -> 86400
      [] k = "hour" -> 3600
      [] k = "min" -> 60
      [] k = "sec" -> 1
      [] OTHER -> 0

\* the units and numbers the report is to show for a total
ExpectedParts(total) ==
    LET all == <<[k |-> "day", n |-> total \div 86400],
                 [k |-> "hour", n |-> (total \div 3600) % 24],
                 [k |-> "min", n |-> (total \div 60) % 60],
                 [k |-> "sec", n |-> total % 60]>>
    IN  IF total = 0 THEN <<[k |-> "sec", n |-> 0]>>
        ELSE SelectSeq(all, LAMBDA p : p.n # 0)

\* the units and numbers of a printed row, after its name
PartsOf(row) ==
    [i \in 1..(Len(row) - 1) |-> [k |-> row[i + 1].k, n |-> row[i + 1].n]]

C20_RowsNeededIsCeil ==
    screen.drawn =>
        \A i \in 1..Len(screen.shown) :
            screen.charged[i] = ActualRows(screen.shown[i], ws_col)

\* the rows the loop charges for the first k lines of q
Charge(q, k) == SumSeq([i \in 1..k |-> RowsNeeded(q[i].length, ws_col)])

\* C21: every rendered frame is the longest prefix of the list whose
\* charged rows are at most ws_row - 1: it starts at the first line, skips
\* none, and ends at the end of the list or before the first line that
\* would go over.
C21_FrameIsLongestPrefix ==
    screen.drawn =>
        LET k == Len(screen.shown)
        IN  /\ IsPrefix(screen.shown, head)
            /\ Charge(head, k) <= ws_row - 1
            /\ k < Len(head) => Charge(head, k + 1) > ws_row - 1

\* a frame that ends with a row to spare before a line that needs two
C21_Witness ==
    /\ screen.drawn
    /\ screen.shown # <<>>
    /\ screen.physical < ws_row - 1
    /\ Len(screen.shown) < Len(head)
    /\ popped = 1

\* C22: display_and_exit is set only when the first frame contains every
\* line of the file; with a line left out of the first frame it stays
\* false.
C22_LatchOnlyWhenAllShown ==
    display_and_exit =>
        PrintLoop(file, <<>>, <<>>, 0, ws_row, ws_col).walker = <<>>

\* a tick on which the scroll test holds
IsScrollTick ==
    /\ IsTick
    /\ ~paused
    /\ ScrollDue(time_to_scroll - 1, start_line_number)

\* C23: a scroll tick that finds display_and_exit set, or removes the last
\* line of the list, raises SIGQUIT, renders nothing, leaves the screen
\* cleared and does not arm the alarm; from then on no SIGALRM is pending
\* or armed, no tick is handled and no frame is rendered, and the viewer
\* leaves the loop only by exiting with status 0.
C23_QuitTickEndsRun ==
    /\ [](SIGQUIT \in pending /\ status = "running" =>
             ~alarmArmed /\ SIGALRM \notin pending)
    /\ [][/\ IsScrollTick /\ (display_and_exit \/ Len(head) = 1) =>
               /\ SIGQUIT \in pending'
               /\ renders' = renders
               /\ ~screen'.drawn
               /\ ~alarmArmed'
               /\ status' = "running"
          /\ SIGQUIT \in pending =>
               /\ renders' = renders
               /\ ticks' = ticks
               /\ status' # status => status' = "exited" /\ exitCode' = 0
         ]_vars

\* the last of three lines removed while a pause was pending: SIGQUIT is
\* raised and the viewer has not exited yet
C23_Witness ==
    /\ status = "running"
    /\ pending = {SIGQUIT, SIGTSTP}
    /\ head = <<>> /\ popped = 3
    /\ ~display_and_exit
    /\ ~extTerm

\* q is the last Len(q) elements of r
IsSuffix(q, r) ==
    Len(q) <= Len(r) /\ q = SubSeq(r, Len(r) - Len(q) + 1, Len(r))

\* C24: the list is always a suffix of the lines of the file, in file
\* order, as long as the file less the lines removed; the only change to
\* it is the removal of its first line by a scroll event.
C24_ListIsSuffix ==
    /\ [](IsSuffix(head, file) /\ Len(head) = Len(file) - popped)
    /\ [][\/ head' = head
          \/ IsScroll /\ head # <<>> /\ head' = Tail(head)]_vars

\* two of three lines removed, the third is the list
C24_Witness ==
    /\ Len(file) = 3
    /\ popped = 2
    /\ head = <<file[3]>>
    /\ status = "running"

\* C28: in every rendered frame start_line_number is 1 plus the number of
\* lines removed so far, and the first line of the list is that line of
\* the file.
C28_StartIsPoppedPlusOne ==
    screen.drawn =>
        /\ start_line_number = 1 + popped
        /\ screen.first = 1 + popped
        /\ head # <<>> => head[1] = file[start_line_number]

\* the frame after the first scroll of a three-line file, seen while paused
C28_Witness ==
    /\ screen.drawn
    /\ Len(file) = 3
    /\ popped = 1
    /\ start_line_number = 2
    /\ head[1] = file[2]
    /\ paused

\* every line of the file fits in the rows of a frame on its own
EachLineFits ==
    \A i \in 1..Len(file) :
        /\ RowsNeeded(file[i].length, ws_col) <= ws_row - 1
        /\ ActualRows(file[i], ws_col) <= ws_row - 1

\* C29: when the viewer has exited without a terminating signal from
\* outside, on a non-empty file whose lines each fit in a frame, every
\* line of the file has been in a rendered frame.
C29_EveryLineShown ==
    status = "exited" /\ ~extTerm /\ file # <<>> /\ EachLineFits =>
        seen = 1..Len(file)

\* C30: the viewer never reads a field of a line that is not there, and on
\* an empty file it ends with status 0.
C30_NoMissingLineRead ==
    /\ status # "crashed"
    /\ file = <<>> /\ status # "running" => status = "exited" /\ exitCode = 0

\* the step handles record rec_idx of the file
IsRecord == lpc = "read" /\ rec_idx <= Len(records) /\ rec_idx' = rec_idx + 1

\* the login records read so far
LoginsRead ==
    {n \in 1..(rec_idx - 1) :
        records[n].ut_type = "USER_PROCESS" /\ ~IsShutdown(records[n])}

\* C25: every open session is held by the user whose username is the user
\* name of its login record, and under -a every user name of a login
\* record read so far has an entry of exactly that username.
C25_LoginsByExactName ==
    /\ \A i \in 1..Len(user_list) :
          \A j \in 1..Len(user_list[i].lines) :
             records[user_list[i].lines[j].rec].ut_user
                = user_list[i].username
    /\ all_users /\ lpc = "read" =>
          \A n \in LoginsRead :
             \E i \in 1..Len(user_list) :
                user_list[i].username = records[n].ut_user

\* the open lines of q whose name is not l
OtherLines(q, l) ==
    LET keep == {j \in 1..Len(q) : q[j].name # l}
    IN  {q[j] : j \in keep}

\* C26: a logout record for line L leaves every open session on a line
\* other than L, and every total of a user without a session on L, as they
\* were.
C26_LogoutClosesExactLine ==
    [][IsRecord /\ records[rec_idx].ut_type = "DEAD_PROCESS"
          /\ ~IsShutdown(records[rec_idx]) =>
          LET l == records[rec_idx].ut_line
          IN  /\ Len(user_list') = Len(user_list)
              /\ \A i \in 1..Len(user_list) :
                    /\ OtherLines(user_list'[i].lines, l)
                          = OtherLines(user_list[i].lines, l)
                    /\ OtherLines(user_list[i].lines, l)
                          = {user_list[i].lines[j] :
                                j \in 1..Len(user_list[i].lines)}
                       => user_list'[i].total_time = user_list[i].total_time
      ]_vars

\* the time a boot or shutdown at time t adds for the open lines of u: for
\* each, t less the time of its login record
OpenTime(u, t) ==
    SumSeq([j \in 1..Len(u.lines) |-> t - records[u.lines[j].rec].tv_sec])

\* C27: a boot or shutdown record leaves no user with an open line and adds
\* to the total of every user, for each line the user had open, the time of
\* the record less the time of the login; no open line has been added to a
\* total before, and none is open afterwards to be added again.
C27_BootClosesAll ==
    /\ [](OpenRecs(user_list) \cap credited = {})
    /\ [][IsRecord /\ IsShutdown(records[rec_idx]) =>
             /\ Len(user_list') = Len(user_list)
             /\ OpenRecs(user_list') = {}
             /\ credited' = credited \cup OpenRecs(user_list)
             /\ \A i \in 1..Len(user_list) :
                   /\ user_list'[i].username = user_list[i].username
                   /\ user_list'[i].lines = <<>>
                   /\ user_list'[i].total_time =
                         user_list[i].total_time
                            + OpenTime(user_list[i], records[rec_idx].tv_sec)
         ]_vars

\* two logins of a user and then a boot: both lines closed at the boot
C27_Witness ==
    /\ Len(records) = 3
    /\ rec_idx = 4
    /\ records[3].ut_type = "BOOT_TIME"
    /\ credited = {1, 2}
    /\ \E i \in 1..Len(user_list) :
          /\ records[1].ut_user = user_list[i].username
          /\ records[2].ut_user = user_list[i].username
          /\ user_list[i].total_time
                = (StampAt(3) - StampAt(1)) + (StampAt(3) - StampAt(2))
    /\ \A i \in 1..Len(user_list) : user_list[i].lines = <<>>

\* the step handles a pause or a resume signal
IsPauseResume ==
    /\ pending' # pending
    /\ pending' \subseteq pending
    /\ pending \ pending' \subseteq {SIGTSTP, SIGINT}

\* the viewer is at sigwait() with no signal of the mask pending
Blocked == status = "running" /\ pending \cap SignalMask = {}

\* C31: while the viewer has not terminated a SIGALRM is pending, or the
\* one-second alarm is armed, or a SIGQUIT is pending; in particular a
\* viewer that blocks in sigwait() has the alarm armed.  Handling a pause
\* or a resume signal leaves the pending SIGALRM and the alarm as they are.
C31_TickOrQuitAhead ==
    /\ [](status = "running" =>
             SIGALRM \in pending \/ alarmArmed \/ SIGQUIT \in pending)
    /\ [](Blocked => alarmArmed)
    /\ [][IsPauseResume =>
             /\ (SIGALRM \in pending') = (SIGALRM \in pending)
             /\ alarmArmed' = alarmArmed
             /\ status' = status
         ]_vars

\* blocked in sigwait() after a pause was handled between two ticks
C31_Witness ==
    /\ Blocked
    /\ alarmArmed
    /\ paused
    /\ ticks >= 1
    /\ popped >= 1

\* the viewer has terminated with status 0
ExitedWithSuccess == status = "exited" /\ exitCode = 0

\* C32 as stated: a viewer on a non-empty file that is not left paused for
\* ever, however often it is paused and resumed, eventually terminates with
\* status 0.
C32_TerminatesUnlessLeftPaused ==
    []<>(~paused) => <>ExitedWithSuccess

\* C32 amended: a viewer on a non-empty file that is from some time on not
\* paused any more eventually terminates with status 0.
C32_TerminatesWhenLeftRunning ==
    <>[](~paused) => <>ExitedWithSuccess

\* terminated by exhaustion at the largest interval, the last line popped
C32_Witness ==
    /\ ExitedWithSuccess
    /\ ~extTerm
    /\ ~paused
    /\ Len(file) = MaxLines
    /\ popped = Len(file)
    /\ seconds = MaxSeconds

\* signal a was generated before signal b, both still pending
Before(arr, a, b) ==
    \E i, j \in 1..Len(arr) : i < j /\ arr[i] = a /\ arr[j] = b

\* the step handles the signal
Handled(sig) == sig \in pending /\ sig \notin pending'

\* C33: of the pause, resume and alarm signals that are pending together,
\* sigwait() returns the one generated first, and a tick generated after a
\* pause that is still pending does not scroll.
C33_HandledInOrderDelivered ==
    [][/\ \A sig \in {SIGALRM, SIGTSTP, SIGINT} :
             Handled(sig) =>
                \A other \in {SIGALRM, SIGTSTP, SIGINT} \ {sig} :
                   ~Before(arrivals, other, sig)
       /\ Handled(SIGALRM) /\ Before(arrivals, SIGTSTP, SIGALRM) =>
             ~IsScroll
      ]_vars

====
